---------------------------- MODULE Spec2Model ----------------------------
(***************************************************************************)
(* Model of cdc-analysis.py: the Field decoders of the CDC mortality file  *)
(* and the three sequential passes of its main program.                    *)
(*                                                                         *)
(* Python strings are TLA+ strings (TLC evaluates Len, SubSeq, Head, Tail  *)
(* and \o on them).  A Python call either returns a value or raises; both  *)
(* outcomes are records: [ok |-> TRUE, val |-> v] and                      *)
(* [ok |-> FALSE, err |-> type, arg |-> text].                             *)
(***************************************************************************)
EXTENDS Integers, Sequences, FiniteSets, TLC

VARIABLES
    fin,            \* the lines of VS17MORT.DUSMCPUB, in file order
    pc,             \* position of the main program
    pos,            \* lines of the current pass already consumed by its loop
    ageRange,       \* the list ageRange of __main__
    distribution,   \* the dict distribution, as its items in insertion order
    leading,        \* the list leading of __main__
    age_codes,      \* the list age_codes of __main__
    stdout,         \* the lines printed so far
    fout,           \* the strings written to reduced.csv so far
    exc,            \* the uncaught exception that ended the program, or NoExc
    fcls,           \* decoder harness: name of the Field class under test
    fline,          \* decoder harness: the line handed to the constructor
    fcode,          \* decoder harness: self.code of the constructed object
    fres            \* decoder harness: the last method call and its outcome

vars == <<fin, pc, pos, ageRange, distribution, leading, age_codes, stdout,
          fout, exc, fcls, fline, fcode, fres>>

mainVars == <<fin, pc, pos, ageRange, distribution, leading, age_codes,
              stdout, fout, exc>>

fieldVars == <<fcls, fline, fcode, fres>>

(***************************************************************************)
(* Bounds of the model.                                                    *)
(***************************************************************************)
MaxLines == 3

(***************************************************************************)
(* Python primitives.                                                      *)
(***************************************************************************)
Ok(v) == [ok |-> TRUE, val |-> v]

Raise(type, text) == [ok |-> FALSE, err |-> type, arg |-> text]

Min(a, b) == IF a <= b THEN a ELSE b

\* s[a:b] for 0 <= a and 0 <= b: never raises, clips to the string.
Slice(s, a, b) ==
    IF a + 1 > Min(b, Len(s)) THEN "" ELSE SubSeq(s, a + 1, Min(b, Len(s)))

\* s[a:]
SliceFrom(s, a) == Slice(s, a, Len(s))

\* s[i] for i >= 0: raises IndexError past the end.
Index(s, i) ==
    IF i < Len(s) THEN Ok(SubSeq(s, i + 1, i + 1))
    ELSE Raise("IndexError", "string index out of range")

\* s.startswith(p)
StartsWith(s, p) == Len(s) >= Len(p) /\ SubSeq(s, 1, Len(p)) = p

Digits == {"0", "1", "2", "3", "4", "5", "6", "7", "8", "9"}

DigitVal ==
    "0" :> 0 @@ "1" :> 1 @@ "2" :> 2 @@ "3" :> 3 @@ "4" :> 4 @@
    "5" :> 5 @@ "6" :> 6 @@ "7" :> 7 @@ "8" :> 8 @@ "9" :> 9

\* The characters str.strip() removes, among those a text line can hold.
Whitespace == {" ", "\n", "\t", "\r"}

RECURSIVE LStrip(_)
LStrip(s) == IF s # "" /\ Head(s) \in Whitespace THEN LStrip(Tail(s)) ELSE s

RECURSIVE RStrip(_)
RStrip(s) ==
    IF s # "" /\ SubSeq(s, Len(s), Len(s)) \in Whitespace
    THEN RStrip(SubSeq(s, 1, Len(s) - 1))
    ELSE s

Strip(s) == LStrip(RStrip(s))

\* A digit part of a numeric literal: digits, single underscores between them.
DigitPart(s) ==
    /\ s # ""
    /\ Head(s) \in Digits
    /\ SubSeq(s, Len(s), Len(s)) \in Digits
    /\ \A i \in 1..Len(s) : SubSeq(s, i, i) \in Digits \cup {"_"}
    /\ \A i \in 1..(Len(s) - 1) : SubSeq(s, i, i + 1) # "__"

\* The base-10 value of the digits of s, underscores skipped.
RECURSIVE DigitsValue(_, _)
DigitsValue(s, acc) ==
    IF s = "" THEN acc
    ELSE IF Head(s) = "_" THEN DigitsValue(Tail(s), acc)
    ELSE DigitsValue(Tail(s), 10 * acc + DigitVal[Head(s)])

\* The number of digits of s, underscores skipped.
RECURSIVE DigitCount(_)
DigitCount(s) ==
    IF s = "" THEN 0
    ELSE (IF Head(s) = "_" THEN 0 ELSE 1) + DigitCount(Tail(s))

Signed(s) == s # "" /\ Head(s) \in {"+", "-"}

Unsigned(s) == IF Signed(s) THEN Tail(s) ELSE s

SignOf(s) == IF s # "" /\ Head(s) = "-" THEN -1 ELSE 1

\* int(s): surrounding whitespace stripped, an optional sign, a digit part.
PyInt(s) ==
    LET t == Strip(s)
        u == Unsigned(t)
    IN  IF DigitPart(u) THEN Ok(SignOf(t) * DigitsValue(u, 0))
        ELSE Raise("ValueError", "invalid literal for int() with base 10: '" \o s \o "'")

\* The position of the first "." of s, 0 when it has none.
DotAt(s) ==
    IF \E i \in 1..Len(s) : SubSeq(s, i, i) = "."
    THEN CHOOSE i \in 1..Len(s) :
            /\ SubSeq(s, i, i) = "."
            /\ \A j \in 1..(i - 1) : SubSeq(s, j, j) # "."
    ELSE 0

RECURSIVE Pow10(_)
Pow10(n) == IF n = 0 THEN 1 ELSE 10 * Pow10(n - 1)

\* float(s) for a decimal literal without exponent: surrounding whitespace
\* stripped, an optional sign, digit parts around at most one ".", at least
\* one of them present.  The value is num/den.  The spellings inf, nan and the
\* exponent forms need the letters e, f, i, n, which no line of the model holds.
PyFloat(s) ==
    LET t == Strip(s)
        u == Unsigned(t)
        d == DotAt(u)
        ip == IF d = 0 THEN u ELSE SubSeq(u, 1, d - 1)
        fp == IF d = 0 THEN "" ELSE SubSeq(u, d + 1, Len(u))
        good == /\ (ip = "" \/ DigitPart(ip))
                /\ (fp = "" \/ DigitPart(fp))
                /\ ~(ip = "" /\ fp = "")
    IN  IF good
        THEN Ok([num |-> SignOf(t) * DigitsValue(ip \o fp, 0),
                 den |-> Pow10(DigitCount(fp))])
        ELSE Raise("ValueError", "could not convert string to float: '" \o s \o "'")

\* a < x and a >= x for an int a and a float x = num/den (den > 0).
FloatBelow(x, a) == x.num < a * x.den

FloatAtLeast(x, a) == x.num >= a * x.den


(***************************************************************************)
(* The Field classes: _rec_start, _rec_end and printable_strings.          *)
(***************************************************************************)
MonthOfDeath ==
    [rec_start |-> 65, rec_end |-> 66,
     printable_strings |->
        "01" :> "January" @@ "02" :> "February" @@ "03" :> "March" @@
        "04" :> "April" @@ "05" :> "May" @@ "06" :> "June" @@
        "07" :> "July" @@ "08" :> "August" @@ "09" :> "September" @@
        "10" :> "October" @@ "11" :> "November" @@ "12" :> "December"]

DayOfWeekOfDeath ==
    [rec_start |-> 85, rec_end |-> 85,
     printable_strings |->
        "1" :> "Sunday" @@ "2" :> "Monday" @@ "3" :> "Tuesday" @@
        "4" :> "Wednesday" @@ "5" :> "Thursday" @@ "6" :> "Friday" @@
        "7" :> "Saturday" @@ "9" :> "UNKNOWN"]

Sex ==
    [rec_start |-> 69, rec_end |-> 69,
     printable_strings |-> "M" :> "Male" @@ "F" :> "Female"]

\* DetailAge and ICD10Code define no printable_strings: they override __str__.
DetailAge == [rec_start |-> 70, rec_end |-> 73]

AgeRecode12 ==
    [rec_start |-> 79, rec_end |-> 80,
     printable_strings |->
        "01" :> "Under 1 year" @@ "02" :> "1 - 4 years" @@
        "03" :> "5 - 14 years" @@ "04" :> "15 - 24 years" @@
        "05" :> "25 - 34 years" @@ "06" :> "35 - 44 years" @@
        "07" :> "45 - 54 years" @@ "08" :> "55 - 64 years" @@
        "09" :> "65 - 74 years" @@ "10" :> "75 - 84 years" @@
        "11" :> "85 years and over" @@ "12" :> "Age not stated"]

MannerOfDeath ==
    [rec_start |-> 107, rec_end |-> 107,
     printable_strings |->
        "1" :> "Accident" @@ "2" :> "Suicide" @@ "3" :> "Homicide" @@
        "4" :> "Pending investigation" @@ "5" :> "Could not determine" @@
        "6" :> "Self-Inflicted" @@ "7" :> "Natural" @@ " " :> "Not specified"]

ICD10Code == [rec_start |-> 146, rec_end |-> 149]

Race ==
    [rec_start |-> 445, rec_end |-> 446,
     printable_strings |->
        "01" :> "White" @@ "02" :> "Black" @@ "03" :> "American Indian" @@
        "04" :> "Chinese" @@ "05" :> "Japanese" @@ "06" :> "Hawaiian" @@
        "07" :> "Filipino" @@ "18" :> "Asian Indian" @@ "28" :> "Korean" @@
        "38" :> "Samoan" @@ "48" :> "Vietnames" @@ "58" :> "Guamanian" @@
        "68" :> "Other Asian" @@ "78" :> "Other Asian"]

LookupClasses ==
    {"MonthOfDeath", "DayOfWeekOfDeath", "Sex", "AgeRecode12",
     "MannerOfDeath", "Race"}

ClassNames == LookupClasses \cup {"DetailAge", "ICD10Code"}

Class(name) ==
    CASE name = "MonthOfDeath" -> MonthOfDeath
      [] name = "DayOfWeekOfDeath" -> DayOfWeekOfDeath
      [] name = "Sex" -> Sex
      [] name = "DetailAge" -> DetailAge
      [] name = "AgeRecode12" -> AgeRecode12
      [] name = "MannerOfDeath" -> MannerOfDeath
      [] name = "ICD10Code" -> ICD10Code
      [] name = "Race" -> Race

(***************************************************************************)
(* Field.__init__ and the __str__ / years / months methods, as functions   *)
(* of self.code.                                                           *)
(***************************************************************************)
\* Field.__init__: self.code = line[self._rec_start-1:self._rec_end]
Field_init(cls, line) == Slice(line, cls.rec_start - 1, cls.rec_end)

\* Field.__str__ with a forgiving lookup, printable_strings.get(code, code).
Field_str_default(cls, code) ==
    IF code \in DOMAIN cls.printable_strings
    THEN Ok(cls.printable_strings[code])
    ELSE Ok(code)

\* Field.__str__: self.printable_strings[self.code]
Field_str(cls, code) ==
    IF code \in DOMAIN cls.printable_strings
    THEN Ok(cls.printable_strings[code])
    ELSE Raise("KeyError", "'" \o code \o "'")

\* The unit names of DetailAge.__str__, by the first character of the code.
AgeUnits ==
    "1" :> " years" @@ "2" :> " months" @@ "4" :> " days" @@
    "5" :> " hours" @@ "6" :> " minutes"

\* DetailAge.__str__.  A code whose first character matches no branch makes
\* the method return None, which str() rejects with TypeError.
DetailAge_str(code) ==
    LET c0 == Index(code, 0)
        n == PyInt(SliceFrom(code, 1))
    IN  IF ~c0.ok THEN c0
        ELSE IF c0.val \in DOMAIN AgeUnits
             THEN (IF n.ok THEN Ok(ToString(n.val) \o AgeUnits[c0.val]) ELSE n)
        ELSE IF c0.val = "9" THEN Ok("Age not stated")
        ELSE Raise("TypeError", "__str__ returned non-string (type NoneType)")

\* DetailAge.years
DetailAge_years(code) ==
    LET c0 == Index(code, 0)
    IN  IF ~c0.ok THEN c0
        ELSE IF c0.val = "1" THEN PyInt(SliceFrom(code, 1))
        ELSE Ok(0)

\* DetailAge.months without the factor 12 of the years branch.
DetailAge_months_unscaled(code) ==
    LET c0 == Index(code, 0)
        n == PyInt(SliceFrom(code, 1))
    IN  IF ~c0.ok THEN c0
        ELSE IF c0.val \in {"1", "2"} THEN n
        ELSE Ok(0)

\* DetailAge.months
DetailAge_months(code) ==
    LET c0 == Index(code, 0)
        n == PyInt(SliceFrom(code, 1))
    IN  IF ~c0.ok THEN c0
        ELSE IF c0.val = "1" THEN (IF n.ok THEN Ok(12 * n.val) ELSE n)
        ELSE IF c0.val = "2" THEN n
        ELSE Ok(0)

\* ICD10Code.__str__ without the test for a blank fourth character.
ICD10Code_str_alwaysdot(code) ==
    LET s == Slice(code, 0, 3)
        c3 == Index(code, 3)
    IN  IF ~c3.ok THEN c3 ELSE Ok(s \o "." \o c3.val)

\* ICD10Code.__str__
ICD10Code_str(code) ==
    LET s == Slice(code, 0, 3)
        c3 == Index(code, 3)
    IN  IF ~c3.ok THEN c3
        ELSE IF c3.val # " " THEN Ok(s \o "." \o c3.val)
        ELSE Ok(s)

\* str(obj) for an object of class name whose self.code is code.
Str(name, code) ==
    CASE name = "DetailAge" -> DetailAge_str(code)
      [] name = "ICD10Code" -> ICD10Code_str(code)
      [] OTHER -> Field_str(Class(name), code)

(***************************************************************************)
(* Lines of the data file.  A record is RecordLen characters wide; the     *)
(* columns no decoder of this file reads hold Filler.  `for line in fin`   *)
(* yields each line with its "\n", except possibly the last of the file,   *)
(* and never an empty string.  A truncated record is a shorter line.       *)
(***************************************************************************)
Filler == "#"

RECURSIVE Pad(_)
Pad(n) ==
    IF n <= 0 THEN ""
    ELSE IF n = 1 THEN Filler
    ELSE LET h == Pad(n \div 2) IN h \o h \o Pad(n % 2)

RecordLen == Race.rec_end

\* A full record holding payload in the columns of cls, Filler elsewhere.
RecordWith(cls, payload) ==
    Pad(cls.rec_start - 1) \o payload \o Pad(RecordLen - cls.rec_end)

\* A record holding the five fields the main program reads.
Record(age, recode, manner, icd, race) ==
    Pad(DetailAge.rec_start - 1) \o age
    \o Pad(AgeRecode12.rec_start - DetailAge.rec_end - 1) \o recode
    \o Pad(MannerOfDeath.rec_start - AgeRecode12.rec_end - 1) \o manner
    \o Pad(ICD10Code.rec_start - MannerOfDeath.rec_end - 1) \o icd
    \o Pad(Race.rec_start - ICD10Code.rec_end - 1) \o race

\* The first n characters of a record, as a line ending in eol.
Cut(record, n, eol) == Slice(record, 0, n) \o eol

(***************************************************************************)
(* Decoder harness: construct one Field object from one line, then call    *)
(* its methods.                                                            *)
(***************************************************************************)
UnitChars == {"1", "2", "3", "4", "5", "6", "9"}

MagChars == {"0", "3", "5", " ", "-", "_", "X"}

IcdChars == {"W", "X", "8", "5", "1", " "}

BadCodes1 == {"0", "8", "X"}

BadCodes2 == {"00", "13", "1 ", "  ", "XX"}

Payloads(name) ==
    CASE name = "DetailAge" ->
            {u \o a \o b \o c : u \in UnitChars, a \in MagChars,
                                b \in MagChars, c \in MagChars}
      [] name = "ICD10Code" ->
            {a \o b \o c \o d : a \in IcdChars, b \in IcdChars,
                                c \in IcdChars, d \in IcdChars}
      [] OTHER ->
            DOMAIN Class(name).printable_strings
            \cup (IF Class(name).rec_end = Class(name).rec_start
                  THEN BadCodes1 ELSE BadCodes2)

\* Where a line is cut: before the field, inside it, at its end, nowhere.
Cuts(cls) == {cls.rec_start - 1, cls.rec_end - 1, cls.rec_end, RecordLen}

HarnessLines(name) ==
    {Cut(RecordWith(Class(name), p), n, eol) :
        p \in Payloads(name), n \in Cuts(Class(name)), eol \in {"\n", ""}}
    \ {""}

NoCall == [op |-> "none"]

MainIdle ==
    /\ fin = <<>>
    /\ pc = "idle"
    /\ pos = 0
    /\ ageRange = <<5, 9>>
    /\ distribution = <<>>
    /\ leading = <<>>
    /\ age_codes = <<>>
    /\ stdout = <<>>
    /\ fout = <<>>
    /\ exc = ""

FieldInit ==
    /\ fcls \in ClassNames
    /\ fline \in HarnessLines(fcls)
    /\ fcode = ""
    /\ fres = NoCall
    /\ MainIdle

\* obj = Cls(line)
Construct ==
    /\ fres.op = "none"
    /\ fcode' = Field_init(Class(fcls), fline)
    /\ fres' = [op |-> "init"]
    /\ UNCHANGED <<fcls, fline, mainVars>>

\* str(obj)
CallStr ==
    /\ fres.op # "none"
    /\ fres' = [op |-> "str", out |-> Str(fcls, fcode)]
    /\ UNCHANGED <<fcls, fline, fcode, mainVars>>

\* obj.years()
CallYears ==
    /\ fres.op # "none"
    /\ fcls = "DetailAge"
    /\ fres' = [op |-> "years", out |-> DetailAge_years(fcode)]
    /\ UNCHANGED <<fcls, fline, fcode, mainVars>>

\* obj.months()
CallMonths ==
    /\ fres.op # "none"
    /\ fcls = "DetailAge"
    /\ fres' = [op |-> "months", out |-> DetailAge_months(fcode)]
    /\ UNCHANGED <<fcls, fline, fcode, mainVars>>

FieldNext == Construct \/ CallStr \/ CallYears \/ CallMonths

FieldSpec == FieldInit /\ [][FieldNext]_vars

(***************************************************************************)
(* The main program.  A dict is the sequence of its items in insertion     *)
(* order, which is the order iteration and sorted() see.                    *)
(***************************************************************************)
Has(d, k) == \E i \in DOMAIN d : d[i].key = k

Get(d, k) == d[CHOOSE i \in DOMAIN d : d[i].key = k].count

Keys(d) == [i \in DOMAIN d |-> d[i].key]

\* The update of the dict with both branches assigning 1.
DictAdd_reset(d, k) ==
    IF Has(d, k)
    THEN [i \in DOMAIN d |->
            IF d[i].key = k THEN [key |-> k, count |-> 1] ELSE d[i]]
    ELSE Append(d, [key |-> k, count |-> 1])

\* if k in distribution: distribution[k] += 1 else: distribution[k] = 1
DictAdd(d, k) ==
    IF Has(d, k)
    THEN [i \in DOMAIN d |->
            IF d[i].key = k THEN [key |-> k, count |-> d[i].count + 1] ELSE d[i]]
    ELSE Append(d, [key |-> k, count |-> 1])

Without(q, i) == SubSeq(q, 1, i - 1) \o SubSeq(q, i + 1, Len(q))

\* sorted(d, key=d.__getitem__, reverse=True): the keys by count, largest
\* first; the sort is stable, so equal counts keep the order of the dict.
RECURSIVE SortedByCountDesc(_)
SortedByCountDesc(d) ==
    IF d = <<>> THEN <<>>
    ELSE LET i == CHOOSE i \in DOMAIN d :
                    /\ \A j \in DOMAIN d : d[j].count <= d[i].count
                    /\ \A j \in 1..(i - 1) : d[j].count < d[i].count
         IN  <<d[i].key>> \o SortedByCountDesc(Without(d, i))

\* ord(c) for the characters the lines of the model hold.
Ord ==
    "\n" :> 10 @@ " " :> 32 @@ "#" :> 35 @@ "-" :> 45 @@ "." :> 46 @@
    "0" :> 48 @@ "1" :> 49 @@ "2" :> 50 @@ "3" :> 51 @@ "4" :> 52 @@
    "5" :> 53 @@ "6" :> 54 @@ "7" :> 55 @@ "8" :> 56 @@ "9" :> 57 @@
    "C" :> 67 @@ "V" :> 86 @@ "W" :> 87 @@ "X" :> 88 @@ "_" :> 95

\* a < b on str: by the first differing character, a proper prefix first.
RECURSIVE StrLess(_, _)
StrLess(a, b) ==
    IF b = "" THEN FALSE
    ELSE IF a = "" THEN TRUE
    ELSE IF Head(a) # Head(b) THEN Ord[Head(a)] < Ord[Head(b)]
    ELSE StrLess(Tail(a), Tail(b))

\* sorted(keys) of distinct strings.
RECURSIVE SortedKeys(_)
SortedKeys(q) ==
    IF q = <<>> THEN <<>>
    ELSE LET i == CHOOSE i \in DOMAIN q :
                    \A j \in DOMAIN q : j = i \/ StrLess(q[i], q[j])
         IN  <<q[i]>> \o SortedKeys(Without(q, i))

\* The traceback text of an uncaught exception.
Traceback(r) == r.err \o ": " \o r.arg

\* One iteration of the loop of lines 151-161: what it does with line.
Pass1Body(line, range) ==
    LET age == DetailAge_years(Field_init(DetailAge, line))
        manner == Field_str(MannerOfDeath, Field_init(MannerOfDeath, line))
    IN  IF ~age.ok THEN [kind |-> "raise", exn |-> age]
        ELSE IF age.val < range[1] \/ age.val > range[2]
             THEN [kind |-> "continue"]
        ELSE IF ~manner.ok THEN [kind |-> "raise", exn |-> manner]
        ELSE [kind |-> "count", key |-> manner.val]

\* One iteration of the loop of lines 181-193.
Pass2Body(line) ==
    LET icd10code == ICD10Code_str(Field_init(ICD10Code, line))
        icd_val == PyFloat(SliceFrom(icd10code.val, 1))
    IN  IF ~icd10code.ok THEN [kind |-> "raise", exn |-> icd10code]
        ELSE IF ~icd_val.ok THEN [kind |-> "raise", exn |-> icd_val]
        ELSE IF \/ ~StartsWith(icd10code.val, "W")
                \/ FloatBelow(icd_val.val, 85)
                \/ FloatAtLeast(icd_val.val, 88)
             THEN [kind |-> "continue"]
        ELSE [kind |-> "count", key |-> Field_init(AgeRecode12, line)]

\* The loop of lines 208-213 testing the upper end of the range only.
Pass3Body_upperonly(line, range) ==
    LET age == DetailAge_years(Field_init(DetailAge, line))
        race == Field_str(Race, Field_init(Race, line))
        icd == ICD10Code_str(Field_init(ICD10Code, line))
    IN  IF ~age.ok THEN [kind |-> "raise", exn |-> age]
        ELSE IF age.val > range[2] THEN [kind |-> "continue"]
        ELSE IF ~race.ok THEN [kind |-> "raise", exn |-> race]
        ELSE IF ~icd.ok THEN [kind |-> "raise", exn |-> icd]
        ELSE [kind |-> "write",
              row |-> ToString(age.val) \o "," \o race.val \o "," \o icd.val \o "\n"]

\* One iteration of the loop of lines 208-213.
Pass3Body(line, range) ==
    LET age == DetailAge_years(Field_init(DetailAge, line))
        race == Field_str(Race, Field_init(Race, line))
        icd == ICD10Code_str(Field_init(ICD10Code, line))
    IN  IF ~age.ok THEN [kind |-> "raise", exn |-> age]
        ELSE IF age.val < range[1] \/ age.val > range[2]
             THEN [kind |-> "continue"]
        ELSE IF ~race.ok THEN [kind |-> "raise", exn |-> race]
        ELSE IF ~icd.ok THEN [kind |-> "raise", exn |-> icd]
        ELSE [kind |-> "write",
              row |-> ToString(age.val) \o "," \o race.val \o "," \o icd.val \o "\n"]

\* The print calls of lines 165-166.
Entries1(d, order) ==
    [i \in DOMAIN order |-> order[i] \o ": " \o ToString(Get(d, order[i]))]

\* The codes of order before the first that AgeRecode12.printable_strings lacks.
Printable(order) ==
    LET bad == {i \in DOMAIN order : order[i] \notin DOMAIN AgeRecode12.printable_strings}
    IN  IF bad = {} THEN order
        ELSE SubSeq(order, 1, (CHOOSE i \in bad : \A j \in bad : i <= j) - 1)

\* The print calls of lines 198-199 that complete.
Entries2(d, order) ==
    [i \in DOMAIN Printable(order) |->
        AgeRecode12.printable_strings[order[i]] \o ": " \o ToString(Get(d, order[i]))]

Header == "AgeYears,Race,ICD10Code\n"

(***************************************************************************)
(* The input files of the model.                                           *)
(***************************************************************************)
FullLines ==
    { Cut(Record("1007", "03", "1", "W860", "01"), RecordLen, "\n"),
      Cut(Record("1005", "03", "2", "W85 ", "02"), RecordLen, "\n"),
      Cut(Record("2003", "01", "7", "W84 ", "01"), RecordLen, "\n"),
      Cut(Record("1018", "04", " ", "W88 ", "78"), RecordLen, "\n"),
      Cut(Record("1009", "03", "8", "X599", "01"), RecordLen, "\n"),
      Cut(Record("1X05", "03", "1", "X599", "01"), RecordLen, "\n"),
      Cut(Record("1-05", "02", "1", "VX1 ", "01"), RecordLen, "\n"),
      Cut(Record("1012", "04", "3", "W85X", "03"), RecordLen, "\n"),
      Cut(Record("1010", "13", "1", "W870", "00"), RecordLen, "\n"),
      Cut(Record("1001", "02", "7", "C349", "00"), RecordLen, "\n"),
      Cut(Record("9999", "12", "7", "W87 ", "01"), RecordLen, "\n"),
      Cut(Record("1007", "03", "1", "W860", "01"), DetailAge.rec_start + 1, "\n") }

\* A last line the file does not end with a newline.
OpenLines ==
    { Cut(Record("1006", "03", "3", "W861", "05"), RecordLen, "") }

SeqsUpTo(S, n) == UNION {[1..k -> S] : k \in 0..n}

Files ==
    SeqsUpTo(FullLines, MaxLines)
    \cup {Append(f, l) : f \in SeqsUpTo(FullLines, MaxLines - 1), l \in OpenLines}

FieldIdle ==
    /\ fcls = "Sex"
    /\ fline = ""
    /\ fcode = ""
    /\ fres = NoCall

Init ==
    /\ fin \in Files
    /\ pc = "pass1"
    /\ pos = 0
    /\ ageRange = <<5, 9>>
    /\ distribution = <<>>
    /\ leading = <<>>
    /\ age_codes = <<>>
    /\ stdout = <<>>
    /\ fout = <<>>
    /\ exc = ""
    /\ FieldIdle

Running(at) == pc = at /\ exc = ""

\* Lines 151-161, one line of the file.
Step1 ==
    /\ Running("pass1")
    /\ pos < Len(fin)
    /\ LET r == Pass1Body(fin[pos + 1], ageRange)
       IN  /\ exc' = IF r.kind = "raise" THEN Traceback(r.exn) ELSE exc
           /\ pos' = IF r.kind = "raise" THEN pos ELSE pos + 1
           /\ distribution' =
                IF r.kind = "count" THEN DictAdd(distribution, r.key)
                ELSE distribution
    /\ UNCHANGED <<fin, pc, ageRange, leading, age_codes, stdout, fout, fieldVars>>

\* Lines 163-168, once the file is exhausted.
Report1 ==
    /\ Running("pass1")
    /\ pos = Len(fin)
    /\ leading' = SortedByCountDesc(distribution)
    /\ stdout' = stdout
            \o << "Leading manners of death for " \o ToString(ageRange[1])
                  \o " to " \o ToString(ageRange[2]) \o " years" >>
            \o Entries1(distribution, leading')
            \o << "\n\n" >>
    /\ pc' = "start2"
    /\ UNCHANGED <<fin, pos, ageRange, distribution, age_codes, fout, exc, fieldVars>>

\* Lines 179-180.
Start2 ==
    /\ Running("start2")
    /\ distribution' = <<>>
    /\ pos' = 0
    /\ pc' = "pass2"
    /\ UNCHANGED <<fin, ageRange, leading, age_codes, stdout, fout, exc, fieldVars>>

\* Lines 181-193, one line of the file.
Step2 ==
    /\ Running("pass2")
    /\ pos < Len(fin)
    /\ LET r == Pass2Body(fin[pos + 1])
       IN  /\ exc' = IF r.kind = "raise" THEN Traceback(r.exn) ELSE exc
           /\ pos' = IF r.kind = "raise" THEN pos ELSE pos + 1
           /\ distribution' =
                IF r.kind = "count" THEN DictAdd(distribution, r.key)
                ELSE distribution
    /\ UNCHANGED <<fin, pc, ageRange, leading, age_codes, stdout, fout, fieldVars>>

\* Lines 196-199, once the file is exhausted: a code the table lacks raises
\* KeyError after the entries before it are printed.
Report2 ==
    /\ Running("pass2")
    /\ pos = Len(fin)
    /\ age_codes' = SortedKeys(Keys(distribution))
    /\ stdout' = stdout
            \o << "Electrocution deaths for each age group" >>
            \o Entries2(distribution, age_codes')
    /\ IF Printable(age_codes') = age_codes'
       THEN pc' = "start3" /\ exc' = exc
       ELSE /\ pc' = "report2"
            /\ exc' = Traceback(Raise("KeyError",
                        "'" \o age_codes'[Len(Printable(age_codes')) + 1] \o "'"))
    /\ UNCHANGED <<fin, pos, ageRange, distribution, leading, fout, fieldVars>>

\* Lines 205-207.
Start3 ==
    /\ Running("start3")
    /\ ageRange' = <<1, 18>>
    /\ fout' = <<Header>>
    /\ pos' = 0
    /\ pc' = "pass3"
    /\ UNCHANGED <<fin, distribution, leading, age_codes, stdout, exc, fieldVars>>

\* Lines 208-213, one line of the file.
Step3 ==
    /\ Running("pass3")
    /\ pos < Len(fin)
    /\ LET r == Pass3Body(fin[pos + 1], ageRange)
       IN  /\ exc' = IF r.kind = "raise" THEN Traceback(r.exn) ELSE exc
           /\ pos' = IF r.kind = "raise" THEN pos ELSE pos + 1
           /\ fout' = IF r.kind = "write" THEN Append(fout, r.row) ELSE fout
    /\ UNCHANGED <<fin, pc, ageRange, distribution, leading, age_codes, stdout, fieldVars>>

\* The end of the with block of line 206.
Finish ==
    /\ Running("pass3")
    /\ pos = Len(fin)
    /\ pc' = "done"
    /\ UNCHANGED <<fin, pos, ageRange, distribution, leading, age_codes, stdout,
                   fout, exc, fieldVars>>

Next == Step1 \/ Report1 \/ Start2 \/ Step2 \/ Report2 \/ Start3 \/ Step3 \/ Finish

Spec == Init /\ [][Next]_vars

(***************************************************************************)
(* Properties of the aggregation passes.                                   *)
(***************************************************************************)
Total(d) ==
    LET RECURSIVE Sum(_)
        Sum(q) == IF q = <<>> THEN 0 ELSE Head(q).count + Sum(Tail(q))
    IN  Sum(d)

CountOf(d, k) == IF Has(d, k) THEN Get(d, k) ELSE 0

KeySet(d) == {d[i].key : i \in DOMAIN d}

\* The predicate of the passes over ages: the age in years lies in lo..hi.
InAgeRange(line, lo, hi) ==
    LET a == DetailAge_years(Field_init(DetailAge, line))
    IN  a.ok /\ lo <= a.val /\ a.val <= hi

\* The first three characters of the diagnosis code of a line.
Category(line) == Slice(Field_init(ICD10Code, line), 0, 3)

Electrocution(line) == Category(line) \in {"W85", "W86", "W87"}

InPass1 == pc \in {"pass1", "start2"}

InPass2 == pc \in {"pass2", "report2", "start3"}

InRange59(line) == InAgeRange(line, 5, 9)

\* The consumed records each predicate held for.
ConsumedInRange59 == Cardinality({i \in 1..pos : InRange59(fin[i])})

ConsumedElectrocution == Cardinality({i \in 1..pos : Electrocution(fin[i])})

C1_TotalMatches ==
    /\ InPass1 => Total(distribution) = ConsumedInRange59
    /\ InPass2 => Total(distribution) = ConsumedElectrocution
    /\ \A i, j \in DOMAIN distribution :
            /\ distribution[i].count >= 1
            /\ (i # j => distribution[i].key # distribution[j].key)

\* A step of a pass over an accepted record adds 1 to exactly one key; any
\* other step of a pass leaves the Distribution as it was.
C1_StepEffect ==
    (pc \in {"pass1", "pass2"} /\ pc' = pc) =>
        IF /\ pos' = pos + 1
           /\ (IF pc = "pass1" THEN InRange59(fin[pos + 1])
               ELSE Electrocution(fin[pos + 1]))
        THEN \E k \in KeySet(distribution') :
                \A j \in KeySet(distribution') \cup KeySet(distribution) :
                    CountOf(distribution', j)
                        = CountOf(distribution, j) + (IF j = k THEN 1 ELSE 0)
        ELSE distribution' = distribution

\* C1: in the manner-of-death pass and in the electrocution pass the counts of
\* the Distribution sum to the number of consumed records the predicate held
\* for; a step over an accepted record adds 1 to exactly one key (a new key
\* starts at 1), a step over a rejected record changes nothing; so at the end
\* of the file the total is the number of accepted records.
C1_CountsMatchAccepted == [](C1_TotalMatches) /\ [][C1_StepEffect]_vars

\* Both passes done over three lines: two accepted under one key, one rejected.
C1_Witness ==
    /\ pc = "start2"
    /\ Len(fin) = 3
    /\ pos = 3
    /\ Len(distribution) = 1
    /\ Total(distribution) = 2

\* The canonical order of the manner-of-death labels: the order of the strings.
CanonicalManners ==
    << "Accident", "Could not determine", "Homicide", "Natural",
       "Not specified", "Pending investigation", "Self-Inflicted", "Suicide" >>

CanonicalRank(k) == CHOOSE i \in DOMAIN CanonicalManners : CanonicalManners[i] = k

\* C7: the count-descending rank lists the keys in non-increasing count order
\* and keys of equal count in the canonical order of the keys, whatever the
\* order the records were accumulated in.
C7_RankIsCanonical ==
    pc = "start2" =>
        \A i, j \in DOMAIN leading :
            i < j =>
                \/ Get(distribution, leading[i]) > Get(distribution, leading[j])
                \/ /\ Get(distribution, leading[i]) = Get(distribution, leading[j])
                   /\ CanonicalRank(leading[i]) < CanonicalRank(leading[j])

\* C8: the electrocution pass counts a record if and only if the category of
\* its diagnosis code is W85, W86 or W87, whatever the fourth character is,
\* and never fails on a record whose code does not start with W.
C8_CountsByCategory ==
    pc = "pass2" =>
        /\ Total(distribution) = ConsumedElectrocution
        /\ exc # "" =>
            LET code == Field_init(ICD10Code, fin[pos + 1])
            IN  ~(Len(code) = 4 /\ (~StartsWith(code, "W") \/ Electrocution(fin[pos + 1])))

Contains(s, t) ==
    \E i \in 1..(Len(s) - Len(t) + 1) : SubSeq(s, i, i + Len(t) - 1) = t

\* The number n appears somewhere in what the program printed or in the
\* traceback of the exception that ended it.
Reported(n) ==
    \/ \E i \in DOMAIN stdout : Contains(stdout[i], ToString(n))
    \/ Contains(exc, ToString(n))

\* C9: a pass that a failing record ended reports how many records it had
\* processed (the program keeps no skipped counter and never continues after
\* a failure, so the report of the processed count is the only way left).
C9_FailureIsReported ==
    (exc # "" /\ pc \in {"pass1", "pass2", "pass3"}) => Reported(pos)

\* The row of the export for one record.
RowOf(line) ==
    ToString(DetailAge_years(Field_init(DetailAge, line)).val) \o ","
    \o Str("Race", Field_init(Race, line)).val \o ","
    \o Str("ICD10Code", Field_init(ICD10Code, line)).val \o "\n"

RECURSIVE ExpectedRows(_)
ExpectedRows(lines) ==
    IF lines = <<>> THEN <<>>
    ELSE (IF InAgeRange(Head(lines), 1, 18) THEN <<RowOf(Head(lines))>> ELSE <<>>)
         \o ExpectedRows(Tail(lines))

\* C10: the export writes the header once, before any row, then one row for
\* each consumed record whose age in years lies in 1..18 and none for any
\* other, in the order of the file, each row made of its own record.
C10_ExportRows ==
    IF pc \in {"pass3", "done"}
    THEN fout = <<Header>> \o ExpectedRows(SubSeq(fin, 1, pos))
    ELSE fout = <<>>

\* The export done over three lines: two rows after the header, one line skipped.
C10_Witness ==
    /\ pc = "done"
    /\ Len(fin) = 3
    /\ Len(fout) = 3
    /\ fout[2] # fout[3]

(***************************************************************************)
(* Properties of the decoders.                                             *)
(***************************************************************************)
Constructed == fres.op # "none"

FieldLen(cls) == cls.rec_end - cls.rec_start + 1

\* C2: the raw code a decoder extracts has exactly rec_end - rec_start + 1
\* characters; a line shorter than rec_end makes the extraction fail, so no
\* shorter or empty code is ever returned.
C2_ExactLengthOrError ==
    Constructed => Len(fcode) = FieldLen(Class(fcls))

\* C3: str() of a lookup decoder returns the label the table maps the code to
\* (manner-of-death " " gives "Not specified"), and fails with KeyError,
\* producing no label, for a code the table lacks.
C3_LookupOrKeyError ==
    (fcls \in LookupClasses /\ fres.op = "str") =>
        LET table == Class(fcls).printable_strings
        IN  /\ fcode \in DOMAIN table =>
                fres.out.ok /\ fres.out.val = table[fcode]
            /\ fcode \notin DOMAIN table =>
                ~fres.out.ok /\ fres.out.err = "KeyError"
            /\ (fcls = "MannerOfDeath" /\ fcode = " ") =>
                fres.out.ok /\ fres.out.val = "Not specified"
            /\ (fcls = "Sex" /\ fcode = "F") =>
                fres.out.ok /\ fres.out.val = "Female"

C3_Witness ==
    /\ fcls = "MannerOfDeath"
    /\ fres.op = "str"
    /\ fcode = " "
    /\ fres.out.ok

\* A 4-character code with a unit digit and three digits of magnitude.
WellFormedAge(code) ==
    /\ Len(code) = 4
    /\ SubSeq(code, 1, 1) \in {"1", "2", "4", "5", "6", "9"}
    /\ \A i \in 2..4 : SubSeq(code, i, i) \in Digits

Magnitude(code) ==
    100 * DigitVal[SubSeq(code, 2, 2)] + 10 * DigitVal[SubSeq(code, 3, 3)]
    + DigitVal[SubSeq(code, 4, 4)]

UnitName(u) ==
    CASE u = "1" -> "years" [] u = "2" -> "months" [] u = "4" -> "days"
      [] u = "5" -> "hours" [] u = "6" -> "minutes"

ExpectedAge(code, op) ==
    LET u == SubSeq(code, 1, 1)
        m == Magnitude(code)
    IN  CASE op = "str" ->
                IF u = "9" THEN "Age not stated"
                ELSE ToString(m) \o " " \o UnitName(u)
          [] op = "years" -> IF u = "1" THEN m ELSE 0
          [] op = "months" -> IF u = "1" THEN 12 * m ELSE IF u = "2" THEN m ELSE 0

\* C4: for a well-formed detail-age code the display is "m <unit>", or "Age not
\* stated" for unit 9; years() is m for years and 0 otherwise; months() is
\* 12*m for years, m for months and 0 otherwise; a unit-9 code with a blank
\* magnitude also gives "Age not stated", 0 and 0.
C4_AgeDecoding ==
    (fcls = "DetailAge" /\ fres.op \in {"str", "years", "months"}) =>
        /\ WellFormedAge(fcode) =>
            fres.out.ok /\ fres.out.val = ExpectedAge(fcode, fres.op)
        /\ fcode = "1005" =>
            fres.out.val = (CASE fres.op = "str" -> "5 years"
                              [] fres.op = "years" -> 5
                              [] fres.op = "months" -> 60)
        /\ fcode = "2003" =>
            fres.out.val = (CASE fres.op = "str" -> "3 months"
                              [] fres.op = "years" -> 0
                              [] fres.op = "months" -> 3)
        /\ fcode = "9   " =>
            /\ fres.out.ok
            /\ fres.out.val = (IF fres.op = "str" THEN "Age not stated" ELSE 0)

C4_Witness ==
    /\ fcls = "DetailAge"
    /\ fcode = "1005"
    /\ fres.op = "months"
    /\ fres.out.ok
    /\ fres.out.val = 60

\* C5: for a detail-age code whose magnitude (characters 2-4) is not three
\* decimal digits, the display, years() and months() all fail; none of them
\* yields a number.
C5_BadMagnitudeFails ==
    ( /\ fcls = "DetailAge"
      /\ fres.op \in {"str", "years", "months"}
      /\ Len(fcode) = 4
      /\ \E i \in 2..4 : SubSeq(fcode, i, i) \notin Digits )
    => ~fres.out.ok

\* C6: the display of a 4-character diagnosis code is its first three
\* characters when the fourth is a space, and otherwise the first three, a
\* dot and the fourth.
C6_IcdDisplay ==
    (fcls = "ICD10Code" /\ fres.op = "str" /\ Len(fcode) = 4) =>
        /\ fres.out.ok
        /\ fres.out.val =
            (IF SubSeq(fcode, 4, 4) = " " THEN SubSeq(fcode, 1, 3)
             ELSE SubSeq(fcode, 1, 3) \o "." \o SubSeq(fcode, 4, 4))
        /\ fcode = "W851" => fres.out.val = "W85.1"
        /\ fcode = "W85 " => fres.out.val = "W85"

C6_Witness ==
    /\ fcls = "ICD10Code"
    /\ fres.op = "str"
    /\ fcode = "W851"
    /\ fres.out.ok
    /\ fres.out.val = "W85.1"

=============================================================================
